---- MODULE Spec2Model ----
(***************************************************************************)
(* Model of the real-time audio relay script src/audio_stream.mjs: the     *)
(* start-up checks, the WebSocket event handlers, the microphone handlers  *)
(* and playAudio, as the handlers the Node.js event loop dispatches one at *)
(* a time.                                                                 *)
(***************************************************************************)
EXTENDS Integers, Sequences, FiniteSets, TLC

\* ------------------------------------------------------------------ bounds

\* Inbound channel messages and microphone events (data chunks and silence
\* events) delivered in one run.
MaxEvents == 4

\* ------------------------------------------------------------ base64 texts

\* The base64 alphabet of Buffer's 'base64' encoding, index 0 first.
B64Chars ==
  << "A","B","C","D","E","F","G","H","I","J","K","L","M","N","O","P",
     "Q","R","S","T","U","V","W","X","Y","Z","a","b","c","d","e","f",
     "g","h","i","j","k","l","m","n","o","p","q","r","s","t","u","v",
     "w","x","y","z","0","1","2","3","4","5","6","7","8","9","+","/" >>

\* The value of a missing JSON property, as an array element.
Undefined == << "undefined" >>

\* data.toString('base64'): three bytes become four characters, a last group
\* of one or two bytes is padded with "=".
RECURSIVE B64Encode(_)
B64Encode(bytes) ==
  IF Len(bytes) = 0 THEN << >>
  ELSE IF Len(bytes) = 1 THEN
    << B64Chars[(bytes[1] \div 4) + 1],
       B64Chars[((bytes[1] % 4) * 16) + 1], "=", "=" >>
  ELSE IF Len(bytes) = 2 THEN
    << B64Chars[(bytes[1] \div 4) + 1],
       B64Chars[((bytes[1] % 4) * 16 + bytes[2] \div 16) + 1],
       B64Chars[((bytes[2] % 16) * 4) + 1], "=" >>
  ELSE
    << B64Chars[(bytes[1] \div 4) + 1],
       B64Chars[((bytes[1] % 4) * 16 + bytes[2] \div 16) + 1],
       B64Chars[((bytes[2] % 16) * 4 + bytes[3] \div 64) + 1],
       B64Chars[(bytes[3] % 64) + 1] >>
    \o B64Encode(SubSeq(bytes, 4, Len(bytes)))

\* The six-bit value of a character of the alphabet.
Unbase64(c) == (CHOOSE i \in 1..64 : B64Chars[i] = c) - 1

\* The characters the decoder consumes: it stops at the first "=".
RECURSIVE B64Payload(_)
B64Payload(text) ==
  IF Len(text) = 0 \/ Head(text) = "=" THEN << >>
  ELSE << Head(text) >> \o B64Payload(Tail(text))

\* Byte j (0-based) of the bit stream of the six-bit values v.
B64Byte(v, j) ==
  LET g == 4 * (j \div 3)
  IN  CASE j % 3 = 0 -> (v[g + 1] * 4 + v[g + 2] \div 16) % 256
        [] j % 3 = 1 -> ((v[g + 2] % 16) * 16 + v[g + 3] \div 4) % 256
        [] OTHER     -> ((v[g + 3] % 4) * 64 + v[g + 4]) % 256

\* Buffer.from(audioData, 'base64'): every complete byte of the characters
\* before the first "=".
BufferFromBase64(audioData) ==
  LET p == B64Payload(audioData)
      v == [i \in 1..Len(p) |-> Unbase64(p[i])]
  IN  [j \in 1..((Len(p) * 6) \div 8) |-> B64Byte(v, j - 1)]

\* (mutant) the elements joined last to first.
RECURSIVE JoinTextsReversed(_)
JoinTextsReversed(texts) ==
  IF Len(texts) = 0 THEN << >>
  ELSE JoinTextsReversed(Tail(texts))
       \o (IF Head(texts) = Undefined THEN << >> ELSE Head(texts))

\* Array.prototype.join(''): the elements' texts in index order, an undefined
\* element contributing the empty text.
RECURSIVE JoinTexts(_)
JoinTexts(texts) ==
  IF Len(texts) = 0 THEN << >>
  ELSE (IF Head(texts) = Undefined THEN << >> ELSE Head(texts))
       \o JoinTexts(Tail(texts))

\* ------------------------------------------------------------------ inputs

\* The base64 fragments an inbound message may carry.
Fragments == { << "Q","Q","=","=" >>, << "Q","g","=","=" >> }

\* The transcript of an inbound audio content part (it may be absent).
Transcripts == { Undefined }

\* The raw chunks the microphone stream may emit.
Chunks == { << >>, << 65, 66 >> }

\* One inbound JSON message, after JSON.parse.
Message(type, part, text, fname, id, unit) ==
  [type |-> type, part |-> part, text |-> text, fname |-> fname, id |-> id,
   unit |-> unit]

Messages ==
  { Message("response.audio.delta", "", f, "", "", "") : f \in Fragments }
  \cup { Message("response.audio.done", "", << >>, "", "", "") }
  \cup { Message("response.content_part.added", "audio", t, "", "", "")
           : t \in Transcripts }
  \cup { Message("response.content_part.added", "text", << >>, "", "", "") }
  \cup { Message("response.content_part.done", "", << >>, "", "", "") }
  \cup { Message("function_call", "", << >>, "get_current_weather", "c1", "celsius"),
         Message("function_call", "", << >>, "other_function", "c2", "") }

IsDone(m) ==
  m.type \in { "response.audio.done", "response.content_part.done" }

\* ------------------------------------------------------------------- state

VARIABLES
  pc,               \* position of the script's top level
  apiKey,           \* process.env.OPENAI_API_KEY
  recFound,         \* whether `which rec` succeeds
  exitCode,         \* the code given to process.exit (0: no exit yet)
  connects,         \* how many times a WebSocket was constructed
  readyState,       \* ws.readyState ("NONE" before ws is constructed)
  micStarted,       \* whether startAudioStream has run
  accumulatedAudio, \* the array of accumulated fragments
  plays,            \* the calls of playAudio, in call order
  pendingWeather,   \* the getWeather calls whose timer has not fired yet
  outbound,         \* the messages handed to ws.send, in call order
  effects,          \* the effects of inbound messages, in the order they occur
  inbox,            \* the inbound messages received so far, in arrival order
  captured,         \* the microphone events so far, in emission order
  cleanSince        \* how many messages had arrived when the buffer was last
                    \* empty with no playback in flight

vars ==
  << pc, apiKey, recFound, exitCode, connects, readyState, micStarted,
     accumulatedAudio, plays, pendingWeather, outbound, effects, inbox,
     captured, cleanSince >>

\* The number of done messages received so far: the index of the open turn.
Turn == Len(SelectSeq(inbox, IsDone))

\* A playback is in flight: piped to the speaker and not yet drained.
InFlight(ps) == \E i \in 1..Len(ps) : ps[i].status = "piped"

\* cleanSince after a step that leaves the buffer acc, the calls ps and n
\* messages received.
CleanAfter(acc, ps, n) ==
  IF acc = << >> /\ ~InFlight(ps) THEN n ELSE cleanSince

\* The Relay Controller's state, read off the script and the channel.
ControllerState ==
  CASE readyState = "NONE"       -> "Disconnected"
    [] readyState = "CONNECTING" -> "Connecting"
    [] readyState = "OPEN"       -> "Streaming"
    [] OTHER                     -> "Closed"

Init ==
  /\ pc = "checkKey"
  /\ apiKey \in { "undefined", "", "sk-key" }
  /\ recFound \in BOOLEAN
  /\ exitCode = 0
  /\ connects = 0
  /\ readyState = "NONE"
  /\ micStarted = FALSE
  /\ accumulatedAudio = << >>
  /\ plays = << >>
  /\ pendingWeather = << >>
  /\ outbound = << >>
  /\ effects = << >>
  /\ inbox = << >>
  /\ captured = << >>
  /\ cleanSince = 0

\* ----------------------------------------------------------------- start-up

\* (mutant) the variable is compared with null, which an unset variable is
\* not.
MissingOnlyNull(key) == key = "null"

\* !API_KEY: the variable is unset or empty.
Missing(key) == key \in { "undefined", "" }

\* if (!API_KEY) { ...; process.exit(1); }
CheckApiKey ==
  /\ pc = "checkKey"
  /\ IF Missing(apiKey)
       THEN pc' = "exited" /\ exitCode' = 1
       ELSE pc' = "checkRec" /\ UNCHANGED exitCode
  /\ UNCHANGED << apiKey, recFound, connects, readyState, micStarted,
                  accumulatedAudio, plays, pendingWeather, outbound, effects,
                  inbox, captured, cleanSince >>

\* (mutant) the failure of `which rec` is caught and only logged.
CheckRecIgnoring ==
  /\ pc = "checkRec"
  /\ pc' = "connect"
  /\ UNCHANGED << apiKey, recFound, exitCode, connects, readyState,
                  micStarted, accumulatedAudio, plays, pendingWeather,
                  outbound, effects, inbox, captured, cleanSince >>

\* try { execSync('which rec'); } catch (error) { ...; process.exit(1); }
CheckRec ==
  /\ pc = "checkRec"
  /\ IF ~recFound
       THEN pc' = "exited" /\ exitCode' = 1
       ELSE pc' = "connect" /\ UNCHANGED exitCode
  /\ UNCHANGED << apiKey, recFound, connects, readyState, micStarted,
                  accumulatedAudio, plays, pendingWeather, outbound, effects,
                  inbox, captured, cleanSince >>

\* (mutant) capture is started at the top level, before the channel opens.
ConnectStartingCapture ==
  /\ pc = "connect"
  /\ pc' = "running"
  /\ connects' = connects + 1
  /\ readyState' = "CONNECTING"
  /\ micStarted' = TRUE
  /\ UNCHANGED << apiKey, recFound, exitCode, accumulatedAudio, plays,
                  pendingWeather, outbound, effects, inbox, captured,
                  cleanSince >>

\* const ws = new WebSocket(OPENAI_API_URL, ...); the handlers are registered
\* and the script's top level ends.
Connect ==
  /\ pc = "connect"
  /\ pc' = "running"
  /\ connects' = connects + 1
  /\ readyState' = "CONNECTING"
  /\ UNCHANGED << apiKey, recFound, exitCode, micStarted, accumulatedAudio,
                  plays, pendingWeather, outbound, effects, inbox, captured,
                  cleanSince >>

\* ---------------------------------------------------------------- outbound

\* One message handed to ws.send; `src` is the event (microphone event or
\* inbound message) it answers.
Outbound(type, audio, id, temperature, src) ==
  [type |-> type, audio |-> audio, id |-> id, temperature |-> temperature,
   src |-> src]

\* (mutant) the newest message goes out ahead of the earlier ones.
SendFirst(message) == << message >> \o outbound

\* ws.send(JSON.stringify(message))
Send(message) == Append(outbound, message)

\* ------------------------------------------------------------ channel events

\* ws.on('open'): the initialization message is sent and capture is started.
OnOpen ==
  /\ pc = "running"
  /\ readyState = "CONNECTING"
  /\ readyState' = "OPEN"
  /\ outbound' = Send(Outbound("conversation.item.create", << >>, "", 0, 0))
  /\ micStarted' = TRUE
  /\ UNCHANGED << pc, apiKey, recFound, exitCode, connects, accumulatedAudio,
                  plays, pendingWeather, effects, inbox, captured,
                  cleanSince >>

\* (mutant) a close handler that discards the accumulated fragments.
OnCloseDiscarding ==
  /\ pc = "running"
  /\ readyState \in { "CONNECTING", "OPEN" }
  /\ readyState' = "CLOSED"
  /\ accumulatedAudio' = << >>
  /\ UNCHANGED << pc, apiKey, recFound, exitCode, connects, micStarted,
                  plays, pendingWeather, outbound, effects, inbox, captured,
                  cleanSince >>

\* (mutant) a close handler that connects again.
OnCloseReconnecting ==
  /\ pc = "running"
  /\ readyState \in { "CONNECTING", "OPEN" }
  /\ readyState' = "CONNECTING"
  /\ connects' = connects + 1
  /\ UNCHANGED << pc, apiKey, recFound, exitCode, micStarted,
                  accumulatedAudio, plays, pendingWeather, outbound, effects,
                  inbox, captured, cleanSince >>

\* ws.on('close'): the handler only logs; the channel delivers nothing more.
OnClose ==
  /\ pc = "running"
  /\ readyState \in { "CONNECTING", "OPEN" }
  /\ readyState' = "CLOSED"
  /\ UNCHANGED << pc, apiKey, recFound, exitCode, connects, micStarted,
                  accumulatedAudio, plays, pendingWeather, outbound, effects,
                  inbox, captured, cleanSince >>

\* ws.on('error'): the handler only logs; the channel delivers nothing more
\* and its 'close' event, whose handler only logs too, follows.
OnError ==
  /\ pc = "running"
  /\ readyState \in { "CONNECTING", "OPEN" }
  /\ readyState' = "CLOSED"
  /\ UNCHANGED << pc, apiKey, recFound, exitCode, connects, micStarted,
                  accumulatedAudio, plays, pendingWeather, outbound, effects,
                  inbox, captured, cleanSince >>

\* ---------------------------------------------------------------- playback

\* (mutant) a catch block that calls the callback.
PlayAudioCallbackInCatch(audioData, speakerThrows) ==
  [audioData |-> audioData,
   audioBuffer |-> BufferFromBase64(audioData),
   status |-> IF speakerThrows THEN "raised" ELSE "piped",
   fired |-> IF speakerThrows THEN 1 ELSE 0]

\* playAudio(audioData, callback) up to its return: the buffer is decoded,
\* then either `new Speaker` throws and the catch block logs (no 'end'
\* handler was registered), or the stream is piped to the speaker.
PlayAudio(audioData, speakerThrows) ==
  [audioData |-> audioData,
   audioBuffer |-> BufferFromBase64(audioData),
   status |-> IF speakerThrows THEN "raised" ELSE "piped",
   fired |-> 0]

\* (mutant) a callback that leaves the array as it is.
KeepAccumulated(acc) == acc

\* The callback handed to playAudio: accumulatedAudio = [].
ClearAccumulated(acc) == << >>

\* readableStream.on('end'): the stream of a piped playback has drained and
\* the callback runs.
PlaybackEnd(i) ==
  /\ pc = "running"
  /\ i \in 1..Len(plays)
  /\ plays[i].status = "piped"
  /\ plays' = [plays EXCEPT ![i].status = "ended", ![i].fired = @ + 1]
  /\ accumulatedAudio' = ClearAccumulated(accumulatedAudio)
  /\ cleanSince' = CleanAfter(accumulatedAudio', plays', Len(inbox))
  /\ UNCHANGED << pc, apiKey, recFound, exitCode, connects, readyState,
                  micStarted, pendingWeather, outbound, effects, inbox,
                  captured >>

\* --------------------------------------------------------- inbound messages

\* accumulatedAudio.push(text); the entry keeps the arrival index of its
\* message and the turn it arrived in.
Push(acc, text, k) == Append(acc, [text |-> text, msg |-> k, turn |-> Turn])

\* The texts of the accumulated entries, in index order.
Texts(acc) == [i \in 1..Len(acc) |-> acc[i].text]

\* The arrival indices of the accumulated entries, in index order.
Tags(acc) == [i \in 1..Len(acc) |-> acc[i].msg]

\* (mutant) no playback is started while an earlier one is in flight.
StartPlaybackSerialized(k, speakerThrows) ==
  /\ plays' = IF InFlight(plays)
                 THEN plays
                 ELSE Append(plays,
                        [msg |-> k, frags |-> Tags(accumulatedAudio),
                         clean |-> cleanSince]
                        @@ PlayAudio(JoinTexts(Texts(accumulatedAudio)),
                                     speakerThrows))
  /\ effects' = Append(effects, [kind |-> "play", msg |-> k])
  /\ UNCHANGED << accumulatedAudio, pendingWeather >>

\* (mutant) a playback attempt that raised is made once more.
StartPlaybackRetrying(k, speakerThrows) ==
  /\ LET call(throws) ==
           [msg |-> k, frags |-> Tags(accumulatedAudio), clean |-> cleanSince]
           @@ PlayAudio(JoinTexts(Texts(accumulatedAudio)), throws)
     IN  plays' = IF speakerThrows
                    THEN Append(Append(plays, call(TRUE)), call(FALSE))
                    ELSE Append(plays, call(FALSE))
  /\ effects' = Append(effects, [kind |-> "play", msg |-> k])
  /\ UNCHANGED << accumulatedAudio, pendingWeather >>

\* (mutant) the buffer is cleared when the done message is handled.
StartPlaybackClearing(k, speakerThrows) ==
  /\ plays' = Append(plays,
       [msg |-> k, frags |-> Tags(accumulatedAudio), clean |-> cleanSince]
       @@ PlayAudio(JoinTexts(Texts(accumulatedAudio)), speakerThrows))
  /\ effects' = Append(effects, [kind |-> "play", msg |-> k])
  /\ accumulatedAudio' = << >>
  /\ UNCHANGED pendingWeather

\* const completeAudio = accumulatedAudio.join(''); playAudio(completeAudio,
\* () => { accumulatedAudio = []; }); the call keeps the arrival index of the
\* done message and the arrival indices of the fragments it was given.
StartPlayback(k, speakerThrows) ==
  /\ plays' = Append(plays,
       [msg |-> k, frags |-> Tags(accumulatedAudio), clean |-> cleanSince]
       @@ PlayAudio(JoinTexts(Texts(accumulatedAudio)), speakerThrows))
  /\ effects' = Append(effects, [kind |-> "play", msg |-> k])
  /\ UNCHANGED << accumulatedAudio, pendingWeather >>

\* accumulatedAudio.push(...) of one fragment.
Accumulate(text, k) ==
  /\ accumulatedAudio' = Push(accumulatedAudio, text, k)
  /\ effects' = Append(effects, [kind |-> "append", msg |-> k])
  /\ UNCHANGED << plays, pendingWeather >>

\* getWeather(location, unit) up to its await: the timer is started.
StartWeather(m, k) ==
  /\ pendingWeather' = Append(pendingWeather,
                              [id |-> m.id, unit |-> m.unit, msg |-> k])
  /\ UNCHANGED << accumulatedAudio, plays, effects >>

\* (mutant) the part's type is not looked at.
AnyPart(m) == m.type = "response.content_part.added"

\* response.type === 'response.content_part.added' &&
\* response.part?.type === 'audio'
IsAudioPart(m) == m.type = "response.content_part.added" /\ m.part = "audio"

\* ws.on('message'), up to the handler's return or its first await.
OnMessage(m) ==
  /\ pc = "running"
  /\ readyState = "OPEN"
  /\ Len(inbox) + Len(captured) < MaxEvents
  /\ LET k == Len(inbox) + 1
     IN  CASE m.type = "response.audio.delta" ->
                Accumulate(m.text, k)
           [] m.type = "response.audio.done" ->
                \E speakerThrows \in BOOLEAN : StartPlayback(k, speakerThrows)
           [] IsAudioPart(m) ->
                Accumulate(m.text, k)
           [] m.type = "response.content_part.done" ->
                \E speakerThrows \in BOOLEAN : StartPlayback(k, speakerThrows)
           [] m.type = "function_call" /\ m.fname = "get_current_weather" ->
                StartWeather(m, k)
           [] OTHER ->
                UNCHANGED << accumulatedAudio, plays, pendingWeather, effects >>
  /\ inbox' = Append(inbox, m)
  /\ cleanSince' = CleanAfter(accumulatedAudio', plays', Len(inbox'))
  /\ UNCHANGED << pc, apiKey, recFound, exitCode, connects, readyState,
                  micStarted, outbound, captured >>

\* The object getWeather returns: temperature 22 for celsius, 72 otherwise.
GetWeather(unit) == IF unit = "celsius" THEN 22 ELSE 72

\* (mutant) the result is sent without the id of the call.
WeatherResolvedLosingId ==
  /\ pc = "running"
  /\ Len(pendingWeather) > 0
  /\ LET w == Head(pendingWeather)
     IN  /\ outbound' = Send(Outbound("function_call.result", << >>, "",
                                      GetWeather(w.unit), w.msg))
         /\ effects' = Append(effects, [kind |-> "reply", msg |-> w.msg])
  /\ pendingWeather' = Tail(pendingWeather)
  /\ UNCHANGED << pc, apiKey, recFound, exitCode, connects, readyState,
                  micStarted, accumulatedAudio, plays, inbox, captured,
                  cleanSince >>

\* (mutant) the resumed function_call branch empties the buffer.
WeatherResolvedClearing ==
  /\ pc = "running"
  /\ Len(pendingWeather) > 0
  /\ LET w == Head(pendingWeather)
     IN  /\ outbound' = Send(Outbound("function_call.result", << >>, w.id,
                                      GetWeather(w.unit), w.msg))
         /\ effects' = Append(effects, [kind |-> "reply", msg |-> w.msg])
  /\ pendingWeather' = Tail(pendingWeather)
  /\ accumulatedAudio' = << >>
  /\ cleanSince' = CleanAfter(accumulatedAudio', plays, Len(inbox))
  /\ UNCHANGED << pc, apiKey, recFound, exitCode, connects, readyState,
                  micStarted, plays, inbox, captured >>

\* The rest of the function_call branch, run when the timer of the oldest
\* pending getWeather call fires: the result is handed to ws.send.
WeatherResolved ==
  /\ pc = "running"
  /\ Len(pendingWeather) > 0
  /\ LET w == Head(pendingWeather)
     IN  /\ outbound' = Send(Outbound("function_call.result", << >>, w.id,
                                      GetWeather(w.unit), w.msg))
         /\ effects' = Append(effects, [kind |-> "reply", msg |-> w.msg])
  /\ pendingWeather' = Tail(pendingWeather)
  /\ UNCHANGED << pc, apiKey, recFound, exitCode, connects, readyState,
                  micStarted, accumulatedAudio, plays, inbox, captured,
                  cleanSince >>

\* --------------------------------------------------------------- microphone

\* (mutant) no guard against empty chunks.
AnyData(data) == TRUE

\* data.length > 0
HasData(data) == Len(data) > 0

\* micInputStream.on('data'): a chunk of non-zero length is sent as
\* input_audio_buffer.append.
MicData(data) ==
  /\ pc = "running"
  /\ micStarted
  /\ Len(inbox) + Len(captured) < MaxEvents
  /\ IF HasData(data)
       THEN outbound' = Send(Outbound("input_audio_buffer.append",
                                      B64Encode(data), "", 0,
                                      Len(captured) + 1))
       ELSE UNCHANGED outbound
  /\ captured' = Append(captured, [ev |-> "data", chunk |-> data])
  /\ UNCHANGED << pc, apiKey, recFound, exitCode, connects, readyState,
                  micStarted, accumulatedAudio, plays, pendingWeather,
                  effects, inbox, cleanSince >>

\* (mutant) a silence handler that also flushes the accumulated fragments.
MicSilenceFlushing ==
  /\ pc = "running"
  /\ micStarted
  /\ Len(inbox) + Len(captured) < MaxEvents
  /\ outbound' = Append(outbound, [type |-> "input_audio_buffer.commit",
                                    audio |-> << >>, id |-> "",
                                    temperature |-> 0,
                                    src |-> Len(captured) + 1])
  /\ captured' = Append(captured, [ev |-> "silence", chunk |-> << >>])
  /\ accumulatedAudio' = << >>
  /\ cleanSince' = IF \E i \in 1..Len(plays) : plays[i].status = "piped"
                     THEN cleanSince ELSE Len(inbox)
  /\ UNCHANGED << pc, apiKey, recFound, exitCode, connects, readyState,
                  micStarted, plays, pendingWeather, effects, inbox >>

\* micInputStream.on('silence'): input_audio_buffer.commit is sent.
MicSilence ==
  /\ pc = "running"
  /\ micStarted
  /\ Len(inbox) + Len(captured) < MaxEvents
  /\ outbound' = Send(Outbound("input_audio_buffer.commit", << >>, "", 0,
                               Len(captured) + 1))
  /\ captured' = Append(captured, [ev |-> "silence", chunk |-> << >>])
  /\ UNCHANGED << pc, apiKey, recFound, exitCode, connects, readyState,
                  micStarted, accumulatedAudio, plays, pendingWeather,
                  effects, inbox, cleanSince >>

\* ------------------------------------------------------------ specification

Next ==
  \/ CheckApiKey
  \/ CheckRec
  \/ Connect
  \/ OnOpen
  \/ OnClose
  \/ OnError
  \/ \E m \in Messages : OnMessage(m)
  \/ WeatherResolved
  \/ \E i \in 1..Len(plays) : PlaybackEnd(i)
  \/ \E data \in Chunks : MicData(data)
  \/ MicSilence

Spec == Init /\ [][Next]_vars

\* The event loop dispatches every pending event: a drained stream's 'end'
\* and a fired timer.
FairSpec ==
  /\ Spec
  /\ \A i \in 1..MaxEvents : WF_vars(PlaybackEnd(i))
  /\ WF_vars(WeatherResolved)

\* ------------------------------------------------------------------ claims

\* The texts of the delta messages of a run of messages, joined in arrival
\* order.
RECURSIVE RunText(_)
RunText(run) ==
  IF Len(run) = 0 THEN << >> ELSE Head(run).text \o RunText(Tail(run))

\* The fragments of a run decoded one by one, the results joined.
RECURSIVE DecodedOneByOne(_)
DecodedOneByOne(run) ==
  IF Len(run) = 0 THEN << >>
  ELSE BufferFromBase64(Head(run).text) \o DecodedOneByOne(Tail(run))

\* The messages received between the moment the buffer was last empty with no
\* playback in flight and the done message of the call p.
RunOf(p) == SubSeq(inbox, p.clean + 1, p.msg - 1)

OnlyDeltas(run) ==
  \A j \in 1..Len(run) : run[j].type = "response.audio.delta"

\* C1: when the buffer is empty and no playback is in flight, and then delta
\* messages d1..dn (n >= 0) arrive followed by a done message, playAudio
\* decodes the single text d1 ++ ... ++ dn: the fragments are joined as text
\* in arrival order and decoded once.
C1_JoinedThenDecodedOnce ==
  \A i \in 1..Len(plays) :
    OnlyDeltas(RunOf(plays[i]))
      => plays[i].audioBuffer = BufferFromBase64(RunText(RunOf(plays[i])))

\* C1 witness: a playback of two deltas from an empty buffer, whose decoded
\* buffer differs from the fragments decoded one by one.
C1_Witness ==
  \E i \in 1..Len(plays) :
    /\ Len(RunOf(plays[i])) = 2
    /\ OnlyDeltas(RunOf(plays[i]))
    /\ plays[i].status = "piped"
    /\ plays[i].audioData = << "Q","Q","=","=","Q","g","=","=" >>
    /\ plays[i].audioBuffer # DecodedOneByOne(RunOf(plays[i]))

\* C2: the step in which a playback's completion callback fires leaves the
\* accumulated buffer empty, whatever it held.
C2_EmptyAfterCallback ==
  [][(\E i \in 1..Len(plays) : plays'[i].fired > plays[i].fired)
       => accumulatedAudio' = << >>]_vars

\* C2 witness: the only playback has completed, a fragment had arrived after
\* its done message, and the buffer is empty.
C2_Witness ==
  /\ Len(plays) = 1
  /\ plays[1].fired = 1
  /\ \E k \in 1..Len(inbox) :
       k > plays[1].msg /\ inbox[k].type = "response.audio.delta"
  /\ accumulatedAudio = << >>

\* The outbound input_audio_buffer.append messages, in send order.
AppendsSent ==
  SelectSeq(outbound, LAMBDA o : o.type = "input_audio_buffer.append")

\* The positions in captured of the data chunks of non-zero length.
ChunksCaptured ==
  SelectSeq([i \in 1..Len(captured) |-> i],
            LAMBDA i : captured[i].ev = "data" /\ Len(captured[i].chunk) > 0)

\* C3: the append messages sent are, one for one, the captured chunks of
\* non-zero length, each message carrying its chunk; a chunk of length zero
\* produces none.
C3_OneAppendPerNonEmptyChunk ==
  /\ Len(AppendsSent) = Len(ChunksCaptured)
  /\ \A j \in 1..Len(AppendsSent) :
       /\ j <= Len(ChunksCaptured)
       /\ AppendsSent[j].src = ChunksCaptured[j]
       /\ BufferFromBase64(AppendsSent[j].audio)
            = captured[ChunksCaptured[j]].chunk

\* C3 witness: a chunk of length zero and a chunk of non-zero length were
\* captured and one append message was sent.
C3_Witness ==
  /\ \E i \in 1..Len(captured) :
       captured[i].ev = "data" /\ captured[i].chunk = << >>
  /\ \E i \in 1..Len(captured) :
       captured[i].ev = "data" /\ captured[i].chunk = << 65, 66 >>
  /\ Len(AppendsSent) = 1
  /\ AppendsSent[1].audio = << "Q","U","I","=" >>

\* A step that handles a silence event.
SilenceStep ==
  /\ Len(captured') = Len(captured) + 1
  /\ captured'[Len(captured')].ev = "silence"

\* C4: a silence event sends exactly one input_audio_buffer.commit message,
\* leaves the accumulated buffer unchanged and starts no playback.
C4_SilenceCommitsOnly ==
  [][SilenceStep
       => /\ Len(outbound') = Len(outbound) + 1
          /\ SubSeq(outbound', 1, Len(outbound)) = outbound
          /\ outbound'[Len(outbound')].type = "input_audio_buffer.commit"
          /\ accumulatedAudio' = accumulatedAudio
          /\ plays' = plays]_vars

\* C4 witness: a silence event was handled while fragments were accumulated,
\* and they are still there.
C4_Witness ==
  /\ \E i \in 1..Len(captured) : captured[i].ev = "silence"
  /\ \E j \in 1..Len(outbound) : outbound[j].type = "input_audio_buffer.commit"
  /\ Len(inbox) = 1
  /\ Len(accumulatedAudio) = 1
  /\ plays = << >>

\* C5: with the credential variable unset (or empty), no WebSocket is ever
\* constructed, and once the check has run the process has exited with
\* code 1.
C5_MissingKeyExitsBeforeConnect ==
  apiKey \in { "undefined", "" }
    => /\ connects = 0
       /\ readyState = "NONE"
       /\ pc # "checkKey" => (pc = "exited" /\ exitCode = 1)

\* C5 witness: the variable is unset and the process has exited.
C5_Witness ==
  apiKey = "undefined" /\ pc = "exited" /\ exitCode = 1 /\ connects = 0

\* A step in which the channel closes (its 'close' or 'error' event).
CloseStep == readyState = "OPEN" /\ readyState' = "CLOSED"

\* C6 as stated: a close while the buffer is non-empty empties the buffer,
\* starts no playback and leaves the controller Closed.
C6_CloseDiscardsBuffer ==
  [][(CloseStep /\ accumulatedAudio # << >>)
       => /\ accumulatedAudio' = << >>
          /\ Len(plays') = Len(plays)
          /\ ControllerState' = "Closed"]_vars

\* C6 amended: a close while the buffer is non-empty leaves the buffer as it
\* is, starts no playback and leaves the controller Closed; and no playback
\* is started after the close.
C6_CloseKeepsBuffer ==
  [][/\ (CloseStep /\ accumulatedAudio # << >>)
          => /\ accumulatedAudio' = accumulatedAudio
             /\ plays' = plays
             /\ ControllerState' = "Closed"
     /\ readyState = "CLOSED"
          => /\ Len(plays') = Len(plays)
             /\ ControllerState' = "Closed"]_vars

\* C6 witness: the channel is closed, no playback is in flight and two
\* fragments are still accumulated.
C6_Witness ==
  /\ readyState = "CLOSED"
  /\ Len(accumulatedAudio) = 2
  /\ plays = << >>

\* C7 as stated: once the channel is closed, no step sends an outbound
\* message or changes the buffer, and the channel stays closed.
C7_ClosedIsSilent ==
  [][readyState = "CLOSED"
       => /\ outbound' = outbound
          /\ accumulatedAudio' = accumulatedAudio
          /\ readyState' = "CLOSED"]_vars

\* C7 amended: once the channel is closed it stays closed, no connection is
\* attempted again, no inbound message is handled and no playback is started;
\* the buffer changes only by a completion callback emptying it.
C7_ClosedIsTerminal ==
  [][/\ connects' <= 1
     /\ readyState = "CLOSED"
          => /\ readyState' = "CLOSED"
             /\ connects' = connects
             /\ inbox' = inbox
             /\ Len(plays') = Len(plays)
             /\ \/ accumulatedAudio' = accumulatedAudio
                \/ /\ accumulatedAudio' = << >>
                   /\ \E i \in 1..Len(plays) :
                        plays'[i].fired > plays[i].fired]_vars

\* C7 witness: the channel is closed while capture runs, a playback is in
\* flight, a weather lookup is pending and a fragment is accumulated.
C7_Witness ==
  /\ readyState = "CLOSED"
  /\ micStarted
  /\ InFlight(plays)
  /\ pendingWeather # << >>
  /\ accumulatedAudio # << >>
  /\ Len(captured) = 1

\* C8 as stated: the callback of every playAudio call fires, and fires once.
C8_CallbackFiresExactlyOnce ==
  /\ [](\A i \in 1..Len(plays) : plays[i].fired <= 1)
  /\ \A i \in 1..MaxEvents :
       [](Len(plays) >= i => <>(Len(plays) >= i /\ plays[i].fired = 1))

\* C8 amended: the callback of a playAudio call fires at most once; it has
\* fired exactly when the call's stream has ended, and it never fires for a
\* call whose playback attempt raised an error.
C8_CallbackAtMostOnce ==
  \A i \in 1..Len(plays) :
    /\ plays[i].fired <= 1
    /\ plays[i].status = "raised" => plays[i].fired = 0
    /\ plays[i].status = "piped" => plays[i].fired = 0
    /\ plays[i].status = "ended" => plays[i].fired = 1

\* C8 witness: one call raised an error and its callback has not fired,
\* another call's stream ended and its callback fired once.
C8_Witness ==
  /\ \E i \in 1..Len(plays) :
       plays[i].status = "raised" /\ plays[i].fired = 0
  /\ \E i \in 1..Len(plays) :
       plays[i].status = "ended" /\ plays[i].fired = 1

\* A sequence of numbers is strictly increasing.
Increasing(q) == \A i, j \in 1..Len(q) : i < j => q[i] < q[j]

\* C9: the accumulated buffer holds fragments of at most one turn, in
\* arrival order.
C9_OneTurnInArrivalOrder ==
  /\ \A i, j \in 1..Len(accumulatedAudio) :
       accumulatedAudio[i].turn = accumulatedAudio[j].turn
  /\ Increasing(Tags(accumulatedAudio))

\* The arrival indices of the messages whose effects are of the given
\* kinds, in the order the effects occurred.
EffectOrder(kinds) ==
  LET es == SelectSeq(effects, LAMBDA e : e.kind \in kinds)
  IN  [i \in 1..Len(es) |-> es[i].msg]

\* The capture positions of the chunks of the append messages, in send
\* order.
AppendOrder == [j \in 1..Len(AppendsSent) |-> AppendsSent[j].src]

\* C10 as stated: buffer appends, playback starts and outbound replies occur
\* in the arrival order of their messages, and append messages are sent in
\* capture order.
C10_AllEffectsInArrivalOrder ==
  /\ Increasing(EffectOrder({ "append", "play", "reply" }))
  /\ Increasing(AppendOrder)

\* C10 amended: buffer appends and playback starts occur in the arrival
\* order of their messages, and append messages are sent in capture order.
C10_SynchronousEffectsInOrder ==
  /\ Increasing(EffectOrder({ "append", "play" }))
  /\ Increasing(Tags(accumulatedAudio))
  /\ Increasing([i \in 1..Len(plays) |-> plays[i].msg])
  /\ Increasing(AppendOrder)

\* C10 witness: two chunks were sent in capture order, and a function call's
\* reply was sent after the fragment of a later message was appended.
C10_Witness ==
  /\ AppendOrder = << 1, 2 >>
  /\ \E i, j \in 1..Len(effects) :
       /\ i < j
       /\ effects[i].kind = "append"
       /\ effects[j].kind = "reply"
       /\ effects[i].msg > effects[j].msg

\* The outbound initialization messages, in send order.
InitSent ==
  SelectSeq(outbound, LAMBDA o : o.type = "conversation.item.create")

\* C11: the open handler sends exactly one initialization message and starts
\* capture; that message is the first outbound message, and before the open
\* event nothing is sent and nothing is captured.
C11_InitFirstThenCapture ==
  /\ readyState \in { "NONE", "CONNECTING" }
       => (outbound = << >> /\ captured = << >> /\ ~micStarted)
  /\ readyState = "OPEN" => micStarted
  /\ micStarted => (Len(InitSent) = 1 /\ Head(outbound) = InitSent[1])
  /\ ~micStarted => (outbound = << >> /\ captured = << >>)

\* C11 witness: the initialization message was sent first, then an append
\* and a commit message.
C11_Witness ==
  /\ Len(outbound) = 3
  /\ outbound[1].type = "conversation.item.create"
  /\ outbound[2].type = "input_audio_buffer.append"
  /\ outbound[3].type = "input_audio_buffer.commit"
  /\ Len(InitSent) = 1

\* A step of the inbound message handler, and the message it handles.
MessageStep == Len(inbox') = Len(inbox) + 1
Handled == inbox'[Len(inbox')]

\* A step that hands a function_call.result to ws.send, and the inbound
\* message it answers.
ReplyStep ==
  /\ Len(outbound') = Len(outbound) + 1
  /\ outbound'[Len(outbound')].type = "function_call.result"
Answered == inbox[outbound'[Len(outbound')].src]

\* Neither an audio delta, nor an audio content part, nor a done message.
NoFragmentNoDone(m) ==
  /\ m.type # "response.audio.delta"
  /\ ~(m.type = "response.content_part.added" /\ m.part = "audio")
  /\ m.type \notin { "response.audio.done", "response.content_part.done" }

\* A function_call message for get_current_weather.
WeatherCall(m) == m.type = "function_call" /\ m.fname = "get_current_weather"

DoneStep ==
  /\ MessageStep
  /\ Handled.type \in { "response.audio.done", "response.content_part.done" }

\* A step in which the completion callback of the i-th playback fires.
CallbackStep(i) ==
  /\ i \in 1..Len(plays)
  /\ Len(plays') = Len(plays)
  /\ plays'[i].fired = plays[i].fired + 1

\* A step that empties a non-empty buffer.
ClearStep == accumulatedAudio # << >> /\ accumulatedAudio' = << >>

\* The done step starts exactly one playback, of the join of the buffer as
\* it is, and leaves the buffer alone.
DoneStartsOnePlayback ==
  DoneStep
    => /\ Len(plays') = Len(plays) + 1
       /\ SubSeq(plays', 1, Len(plays)) = plays
       /\ plays'[Len(plays')].msg = Len(inbox')
       /\ plays'[Len(plays')].audioData
            = JoinTexts(Texts(accumulatedAudio))
       /\ plays'[Len(plays')].fired = 0
       /\ accumulatedAudio' = accumulatedAudio

\* C13 (as stated): every done message starts exactly one playback of the
\* join of the buffer, also of an empty buffer, and leaves the buffer
\* unchanged; while a playback waits for its completion callback the buffer
\* is cleared only when the callback of that playback fires.
C13_ClearedOnlyByOwnCallback ==
  [][ /\ DoneStartsOnePlayback
      /\ ClearStep
           => \A j \in 1..Len(plays) :
                plays[j].status = "piped" => CallbackStep(j) ]_vars

\* C13 (amended): every done message starts exactly one playback of the
\* join of the buffer, also of an empty buffer, and leaves the buffer
\* unchanged; the buffer loses entries only by being emptied in a step in
\* which the completion callback of some playback in flight fires.
C13_ClearedOnlyByACallback ==
  [][ /\ DoneStartsOnePlayback
      /\ (ClearStep \/ Len(accumulatedAudio') < Len(accumulatedAudio))
           => /\ accumulatedAudio' = << >>
              /\ \E i \in 1..Len(plays) :
                   plays[i].status = "piped" /\ CallbackStep(i) ]_vars

\* C13 witness: a done message played the empty buffer and that playback
\* completed; a later done message played one fragment, which is still in
\* the buffer while the second playback waits for its callback.
C13_Witness ==
  /\ Len(plays) = 2
  /\ plays[1].audioData = << >> /\ plays[1].status = "ended"
  /\ plays[2].audioData # << >> /\ plays[2].status = "piped"
  /\ Len(accumulatedAudio) = 1
  /\ plays[2].frags = Tags(accumulatedAudio)

\* A step in which some playback's completion callback fires.
AnyCallbackStep == \E i \in 1..Len(plays) : CallbackStep(i)

\* A step that handles an inbound message, a capture chunk, a silence event
\* or a playback completion.
EventStep ==
  \/ MessageStep
  \/ Len(captured') = Len(captured) + 1
  \/ AnyCallbackStep

\* C14 (as stated): the buffer is changed only by steps of the inbound
\* message handler, and while an invocation of that handler has not run to
\* its end (its lookup is pending) no other event is handled.
C14_OnlyHandlerRunsToCompletion ==
  [][ /\ accumulatedAudio' # accumulatedAudio => MessageStep
      /\ pendingWeather # << >> => ~EventStep ]_vars

\* C14 (amended): the buffer is changed only by the push of the message
\* handler and by the playback completion callbacks, which empty it; the
\* resumed part of a function_call invocation leaves it unchanged, and no
\* step is a step of two handlers.
C14_HandlerPushOrCallbackClear ==
  [][ /\ accumulatedAudio' # accumulatedAudio
           => \/ /\ MessageStep
                 /\ Len(accumulatedAudio') = Len(accumulatedAudio) + 1
                 /\ SubSeq(accumulatedAudio', 1, Len(accumulatedAudio))
                      = accumulatedAudio
                 /\ accumulatedAudio'[Len(accumulatedAudio')].msg
                      = Len(inbox')
              \/ /\ AnyCallbackStep
                 /\ accumulatedAudio' = << >>
      /\ ReplyStep => accumulatedAudio' = accumulatedAudio
      /\ MessageStep
           => (captured' = captured /\ ~AnyCallbackStep /\ ~ReplyStep)
      /\ AnyCallbackStep => (captured' = captured /\ ~ReplyStep)
      /\ ReplyStep => captured' = captured ]_vars

\* C14 witness: while the lookup of a function_call was pending, a fragment
\* and a done message were handled and the playback's callback emptied the
\* buffer.
C14_Witness ==
  /\ Len(pendingWeather) = 1
  /\ pendingWeather[1].msg = 1
  /\ Len(inbox) = 3
  /\ Len(plays) = 1
  /\ plays[1].frags # << >> /\ plays[1].fired = 1
  /\ accumulatedAudio = << >>

\* A step of the message handler in which a playback attempt raises.
RaiseStep ==
  /\ MessageStep
  /\ \E i \in (Len(plays) + 1)..Len(plays') : plays'[i].status = "raised"

\* Some playback attempt has raised.
SomeRaised == \E i \in 1..Len(plays) : plays[i].status = "raised"

\* C15: a playback attempt that raises is caught inside the call: the
\* process goes on without an exit code, the controller stays in Streaming
\* with capture running, the attempt is the only call made for its done
\* message and is never made again, and the conditions under which inbound
\* messages and capture events are handled are as they were.
C15_RaiseIsCaught ==
  [][ /\ RaiseStep
           => /\ pc = "running" /\ pc' = "running"
              /\ exitCode' = 0
              /\ ControllerState = "Streaming"
              /\ ControllerState' = "Streaming"
              /\ micStarted /\ micStarted'
              /\ Len(plays') = Len(plays) + 1
              /\ accumulatedAudio' = accumulatedAudio
              /\ outbound' = outbound
      /\ \A i \in 1..Len(plays) :
           plays[i].status = "raised"
             => /\ Len(plays') >= i /\ plays'[i] = plays[i]
                /\ \A j \in 1..Len(plays') :
                     plays'[j].msg = plays[i].msg => j = i
      /\ SomeRaised => (pc = "running" /\ exitCode = 0 /\ micStarted) ]_vars

\* C15 witness: the playback of the first done message raised; afterwards a
\* fragment was accumulated, a capture chunk was sent, and the next done
\* message started a playback of that fragment while the channel is open.
C15_Witness ==
  /\ Len(plays) = 2
  /\ plays[1].status = "raised" /\ plays[1].fired = 0
  /\ plays[2].status = "piped" /\ Len(plays[2].frags) = 1
  /\ plays[2].msg > plays[1].msg + 1
  /\ Len(AppendsSent) = 1
  /\ ControllerState = "Streaming"
  /\ pc = "running" /\ exitCode = 0

\* C16: without the capture utility no WebSocket is ever constructed and,
\* once both start-up checks are behind, the process has exited with code 1;
\* the capture-utility check is reached only with the credential present,
\* that is, after the credential check has passed.
C16_MissingRecExitsBeforeConnect ==
  /\ ~recFound
       => /\ connects = 0
          /\ readyState = "NONE"
          /\ pc \notin { "checkKey", "checkRec" }
               => (pc = "exited" /\ exitCode = 1)
  /\ pc = "checkRec" => (apiKey \notin { "undefined", "" } /\ exitCode = 0)
  /\ pc \in { "connect", "running" }
       => (recFound /\ apiKey \notin { "undefined", "" })

\* C16 witness: the credential is present, the capture utility is not, and
\* the process has exited with code 1 without a connection.
C16_Witness ==
  /\ apiKey = "sk-key"
  /\ ~recFound
  /\ pc = "exited" /\ exitCode = 1
  /\ connects = 0

\* The playbacks whose stream was piped and whose callback has not fired.
Waiting(ps) == { i \in 1..Len(ps) : ps[i].status = "piped" /\ ps[i].fired = 0 }

\* C17: playbacks are not serialized: a done message handled while earlier
\* playbacks wait for their callback starts its own playback in the same
\* step, and the earlier playbacks keep waiting.
C17_DoneStartsPlaybackAtOnce ==
  [][ (DoneStep /\ Waiting(plays) # {})
        => /\ Len(plays') = Len(plays) + 1
           /\ plays'[Len(plays')].msg = Len(inbox')
           /\ plays'[Len(plays')].status \in { "piped", "raised" }
           /\ Waiting(plays) \subseteq Waiting(plays') ]_vars

\* C17 witness: two playbacks are in flight.
C17_Witness ==
  /\ Cardinality(Waiting(plays)) = 2
  /\ Len(plays) = 2
  /\ plays[2].msg > plays[1].msg

\* The arrival indices of the fragments handed to some call of playAudio.
HandedToSink(ps) ==
  UNION { { ps[i].frags[j] : j \in 1..Len(ps[i].frags) } : i \in 1..Len(ps) }

\* The arrival indices of the fragments in the buffer.
InBuffer(acc) == { acc[j].msg : j \in 1..Len(acc) }

\* C18: no received fragment is lost: a fragment leaves the buffer only
\* after it was part of the buffer handed to the Playback Sink by a done
\* message; in particular the clear of a playback's callback removes no
\* fragment that arrived after the done message and was not played.
C18_NoFragmentLost ==
  [][ \A t \in InBuffer(accumulatedAudio) \ InBuffer(accumulatedAudio') :
        t \in HandedToSink(plays) ]_vars

\* The arrival indices of the fragments given to the i-th call of playAudio.
FragsOf(i) == { plays[i].frags[j] : j \in 1..Len(plays[i].frags) }

\* C19: no fragment is played twice: two playbacks whose stream was piped
\* to the speaker were given no audio delta in common.
C19_NoFragmentPlayedTwice ==
  \A i, j \in 1..Len(plays) :
    (i < j /\ plays[i].status # "raised" /\ plays[j].status # "raised")
      => \A t \in FragsOf(i) \cap FragsOf(j) :
           inbox[t].type # "response.audio.delta"

\* C20: a playback attempt that raised never fires its callback, and the
\* fragments it was given (the buffer it left unchanged) are contained in
\* the buffer played at the next done message.
C20_FailedTurnPlayedAtNextDone ==
  \A i \in 1..Len(plays) :
    plays[i].status = "raised"
      => /\ plays[i].fired = 0
         /\ i < Len(plays) => FragsOf(i) \subseteq FragsOf(i + 1)

\* The positions in outbound of the results sent for the k-th inbound
\* message, and the pending lookups started by it.
ResultsFor(k) ==
  { j \in 1..Len(outbound) :
      outbound[j].type = "function_call.result" /\ outbound[j].src = k }
LookupsFor(k) ==
  { j \in 1..Len(pendingWeather) : pendingWeather[j].msg = k }

\* Every weather call is either waiting for its lookup or answered by one
\* result carrying its id, never both; no other message is answered.
OneResultPerCall ==
  \A k \in 1..Len(inbox) :
    IF WeatherCall(inbox[k])
      THEN /\ Cardinality(ResultsFor(k)) + Cardinality(LookupsFor(k)) = 1
           /\ \A j \in ResultsFor(k) : outbound[j].id = inbox[k].id
      ELSE ResultsFor(k) = {} /\ LookupsFor(k) = {}

\* The handler step of a weather call sends nothing and leaves the buffer
\* alone; the result is sent in a later step, which leaves the buffer alone
\* too; a message or capture event handled while lookups are pending leaves
\* them pending, so its handling comes before their results.
ResultAfterLookup ==
  /\ (MessageStep /\ WeatherCall(Handled))
       => /\ outbound' = outbound
          /\ accumulatedAudio' = accumulatedAudio
          /\ Len(pendingWeather') = Len(pendingWeather) + 1
          /\ pendingWeather'[Len(pendingWeather')].msg = Len(inbox')
  /\ ReplyStep
       => /\ accumulatedAudio' = accumulatedAudio
          /\ pendingWeather # << >>
          /\ outbound'[Len(outbound')].src = Head(pendingWeather).msg
          /\ pendingWeather' = Tail(pendingWeather)
  /\ (MessageStep \/ Len(captured') = Len(captured) + 1)
       => /\ ~ReplyStep
          /\ Len(pendingWeather') >= Len(pendingWeather)
          /\ SubSeq(pendingWeather', 1, Len(pendingWeather)) = pendingWeather

\* C21: each function_call for get_current_weather leads to exactly one
\* function_call.result carrying the call's id (a call is either waiting
\* for its lookup or answered once, and no lookup stays pending for ever),
\* sent in a step after the handler step, once the lookup has resolved;
\* messages and capture events handled during the lookup come before the
\* result, and neither the handler step nor the sending of the result
\* changes the buffer.
C21_OneResultAfterLookup ==
  /\ []OneResultPerCall
  /\ [][ResultAfterLookup]_vars
  /\ (pendingWeather # << >>) ~> (pendingWeather = << >>)

\* C21 witness: a weather call arrived first; during its lookup a fragment
\* was accumulated and a capture chunk was sent; then the one result with
\* the call's id was sent, and the fragment is still in the buffer.
C21_Witness ==
  /\ Len(inbox) = 2
  /\ WeatherCall(inbox[1])
  /\ Len(outbound) = 3
  /\ outbound[2].type = "input_audio_buffer.append"
  /\ outbound[3].type = "function_call.result"
  /\ outbound[3].src = 1 /\ outbound[3].id = inbox[1].id
  /\ effects = << [kind |-> "append", msg |-> 2], [kind |-> "reply", msg |-> 1] >>
  /\ Tags(accumulatedAudio) = << 2 >>
  /\ pendingWeather = << >>

====
